---- MODULE Spec2Model ----
(***************************************************************************)
(* Model of gui_main.py: a Streamlit page that loads a MongoDB collection  *)
(* into a pandas DataFrame (st.session_state.data), edits it with column   *)
(* transforms and SQL, and writes it back with delete_many + insert_many.  *)
(*                                                                         *)
(* A cell value is a pair <<tag, text>>:                                   *)
(*   "s"    a Python str              "n"    a float                       *)
(*   "nan"  NaN (a missing field)     "null" None                          *)
(*   "l"    a list holding the one string text                             *)
(*   "id"   a store-assigned ObjectId                                      *)
(* A document is a sequence of <<field, value>> pairs (a Python dict keeps *)
(* insertion order).  A table (DataFrame) is [cols, rows]: the column      *)
(* labels in order (pandas allows repeated labels) and the rows, each a    *)
(* sequence of cell values, one per column.                                *)
(***************************************************************************)
EXTENDS Integers, Sequences, FiniteSets, TLC

VARIABLES
    store,      \* the selected collection: a sequence of documents
    has_data,   \* 'data' in st.session_state
    data,       \* st.session_state.data
    last,       \* the last handler run: its inputs, the state before, its report
    steps,      \* number of button clicks so far
    pc,         \* per session, position inside save_data (concurrent saves)
    mine,       \* per session, the table it is saving
    finished    \* the sessions whose save_data returned, in order

vars == <<store, has_data, data, last, steps, pc, mine, finished>>

\* Bound on the number of button clicks in a run.
MaxSteps == 3

NaN == <<"nan", "">>
None == <<"null", "">>
Str(s) == <<"s", s>>
Num(s) == <<"n", s>>
List(s) == <<"l", s>>
ObjectId(k) == <<"id", ToString(k)>>

EmptyTable == [cols |-> <<>>, rows |-> <<>>]

\* ---------------------------------------------------------------- helpers

Range(s) == {s[i] : i \in 1..Len(s)}

\* positions of the columns labelled name
ColIdx(t, name) == {i \in 1..Len(t.cols) : t.cols[i] = name}

HasCol(t, name) == ColIdx(t, name) # {}

\* the subsequence of s at the positions satisfying keep, in order
RECURSIVE SelectIdx(_, _, _)
SelectIdx(s, keep, i) ==
    IF i > Len(s) THEN <<>>
    ELSE (IF i \in keep THEN <<s[i]>> ELSE <<>>) \o SelectIdx(s, keep, i + 1)

\* Python str(value), as Series.astype(str) applies it to every cell
PyStr(v) ==
    CASE v[1] = "s" -> v[2]
      [] v[1] = "n" -> v[2]
      [] v[1] = "nan" -> "nan"
      [] v[1] = "null" -> "None"
      [] v[1] = "l" -> "['" \o v[2] \o "']"
      [] OTHER -> v[2]

\* ------------------------------------------------------------- DataFrame

\* field names of a sequence of documents, in first-seen order
RECURSIVE AppendNew(_, _)
AppendNew(acc, names) ==
    IF names = <<>> THEN acc
    ELSE AppendNew(IF Head(names) \in Range(acc) THEN acc ELSE Append(acc, Head(names)),
                   Tail(names))

DocKeys(doc) == [i \in 1..Len(doc) |-> doc[i][1]]

RECURSIVE UnionKeys(_, _)
UnionKeys(docs, acc) ==
    IF docs = <<>> THEN acc
    ELSE UnionKeys(Tail(docs), AppendNew(acc, DocKeys(Head(docs))))

\* doc[key], NaN when the document lacks the field
DocGet(doc, key) ==
    IF \E i \in 1..Len(doc) : doc[i][1] = key
    THEN doc[CHOOSE i \in 1..Len(doc) : doc[i][1] = key][2]
    ELSE NaN

\* lib.maybe_convert_objects: a column of floats and nulls becomes float64,
\* its None cells NaN; any other column keeps its objects
ConvertColumn(t, j) ==
    LET cells == {t.rows[r][j] : r \in 1..Len(t.rows)}
        numeric == (\E c \in cells : c[1] = "n")
                   /\ (\A c \in cells : c[1] \in {"n", "nan", "null"})
    IN [r \in 1..Len(t.rows) |->
           IF numeric /\ t.rows[r][j] = None THEN NaN ELSE t.rows[r][j]]

ConvertObjects(t) ==
    [cols |-> t.cols,
     rows |-> [r \in 1..Len(t.rows) |->
                 [j \in 1..Len(t.cols) |-> ConvertColumn(t, j)[r]]]]

\* pd.DataFrame(list of dicts)
DataFrame(docs) ==
    LET cols == UnionKeys(docs, <<>>)
    IN ConvertObjects(
         [cols |-> cols,
          rows |-> [r \in 1..Len(docs) |->
                      [j \in 1..Len(cols) |-> DocGet(docs[r], cols[j])]]])

\* DataFrame.drop(columns=names) once every name is known to be a label
DropCols(t, names) ==
    LET keep == {i \in 1..Len(t.cols) : t.cols[i] \notin names}
    IN [cols |-> SelectIdx(t.cols, keep, 1),
        rows |-> [r \in 1..Len(t.rows) |-> SelectIdx(t.rows[r], keep, 1)]]

\* DataFrame.to_dict('records'): one dict per row, built by zipping the labels
\* with itertuples(); a frame without columns yields no tuple at all, and a
\* repeated label keeps its first position and its last value
ToRecords(t) ==
    IF t.cols = <<>> THEN <<>>
    ELSE LET keys == AppendNew(<<>>, t.cols)
         IN [r \in 1..Len(t.rows) |->
               [k \in 1..Len(keys) |->
                  <<keys[k],
                    t.rows[r][CHOOSE i \in ColIdx(t, keys[k]) :
                                 \A j \in ColIdx(t, keys[k]) : j <= i]>>]]

\* ------------------------------------------------------------ operations

\* load_data: the collection as a frame, without the _id column
load_data(docs) ==
    LET df == DataFrame(docs)
    IN IF HasCol(df, "_id") THEN DropCols(df, {"_id"}) ELSE df

\* data[name] = vals: a present label is overwritten in place (every column
\* carrying it), a new label is appended as the last column
Assign(t, name, vals) ==
    IF HasCol(t, name)
    THEN [cols |-> t.cols,
          rows |-> [r \in 1..Len(t.rows) |->
                      [j \in 1..Len(t.cols) |->
                         IF t.cols[j] = name THEN vals[r] ELSE t.rows[r][j]]]]
    ELSE [cols |-> Append(t.cols, name),
          rows |-> [r \in 1..Len(t.rows) |-> Append(t.rows[r], vals[r])]]

\* add_column as it would be if the assignment always appended a column
add_column_append(t, column_name, default_value) ==
    [cols |-> Append(t.cols, column_name),
     rows |-> [r \in 1..Len(t.rows) |-> Append(t.rows[r], default_value)]]

\* add_column: data[column_name] = default_value
add_column(t, column_name, default_value) ==
    Assign(t, column_name, [r \in 1..Len(t.rows) |-> default_value])

\* the n-th smallest element of a set of positions
Nth(S, n) == CHOOSE i \in S : Cardinality({j \in S : j <= i}) = n

\* data[new] = frame, where frame holds, for each column labelled col, that
\* column's text followed by itself: pandas accepts it only when new labels
\* as many columns as the frame has, and writes them position by position
AssignFrame(t, col, new) ==
    LET src == ColIdx(t, col)
        dst == ColIdx(t, new)
    IN [cols |-> t.cols,
        rows |-> [r \in 1..Len(t.rows) |->
                    [j \in 1..Len(t.cols) |->
                       IF j \in dst
                       THEN LET v == t.rows[r][Nth(src, Cardinality({q \in dst : q <= j}))]
                            IN Str(PyStr(v) \o PyStr(v))
                       ELSE t.rows[r][j]]]]

\* the drop of merge_columns (line 48)
MergeDrop(t, col1, col2, drop_originals) ==
    IF drop_originals THEN DropCols(t, {col1, col2}) ELSE t

\* merge_columns as it would be if it created the target column before
\* reading its operands: a call that raises leaves that column behind
merge_columns_partial(t, col1, col2, new_col_name, drop_originals) ==
    IF HasCol(t, col1) /\ HasCol(t, col2)
       /\ Cardinality(ColIdx(t, col1)) = 1 /\ Cardinality(ColIdx(t, col2)) = 1
    THEN LET i1 == CHOOSE i \in ColIdx(t, col1) : TRUE
             i2 == CHOOSE i \in ColIdx(t, col2) : TRUE
             merged == [r \in 1..Len(t.rows) |->
                          Str(PyStr(t.rows[r][i1]) \o PyStr(t.rows[r][i2]))]
         IN [ok |-> TRUE,
             t |-> MergeDrop(Assign(t, new_col_name, merged), col1, col2, drop_originals)]
    ELSE [ok |-> FALSE, t |-> add_column(t, new_col_name, Str(""))]

\* merge_columns.  ok = FALSE: the call raised and the frame is untouched
\* (a missing label is a KeyError; a label carried by several columns makes
\* data[col] a frame, which pandas cannot add to a differently labelled
\* operand and assign to a single column).
merge_columns(t, col1, col2, new_col_name, drop_originals) ==
    IF ~HasCol(t, col1) \/ ~HasCol(t, col2)
    THEN [ok |-> FALSE, t |-> t]
    ELSE IF Cardinality(ColIdx(t, col1)) = 1 /\ Cardinality(ColIdx(t, col2)) = 1
    THEN LET i1 == CHOOSE i \in ColIdx(t, col1) : TRUE
             i2 == CHOOSE i \in ColIdx(t, col2) : TRUE
             merged == [r \in 1..Len(t.rows) |->
                          Str(PyStr(t.rows[r][i1]) \o PyStr(t.rows[r][i2]))]
         IN [ok |-> TRUE,
             t |-> MergeDrop(Assign(t, new_col_name, merged), col1, col2, drop_originals)]
    ELSE IF col1 = col2
            /\ Cardinality(ColIdx(t, new_col_name)) = Cardinality(ColIdx(t, col1))
    THEN [ok |-> TRUE,
          t |-> MergeDrop(AssignFrame(t, col1, new_col_name), col1, col2, drop_originals)]
    ELSE [ok |-> FALSE, t |-> t]

\* remove_columns: DataFrame.drop raises KeyError on a label that is absent
remove_columns(t, columns) ==
    IF \E c \in columns : ~HasCol(t, c)
    THEN [ok |-> FALSE, t |-> t]
    ELSE [ok |-> TRUE, t |-> DropCols(t, columns)]

\* conditional_update: data.loc[data[column] == condition, column] = new_value.
\* A missing label is a KeyError; a label carried by several columns makes the
\* mask a frame, which .loc rejects as a row indexer.
conditional_update(t, column, condition, new_value) ==
    IF Cardinality(ColIdx(t, column)) # 1
    THEN [ok |-> FALSE, t |-> t]
    ELSE LET i == CHOOSE j \in ColIdx(t, column) : TRUE
         IN [ok |-> TRUE,
             t |-> [cols |-> t.cols,
                    rows |-> [r \in 1..Len(t.rows) |->
                                IF t.rows[r][i] = condition
                                THEN [t.rows[r] EXCEPT ![i] = new_value]
                                ELSE t.rows[r]]]]

\* rename_column as it would be if written as "copy the column under the new
\* label, drop the old one": the renamed column moves to the end
rename_column_moved(t, old_column_name, new_column_name) ==
    IF ~HasCol(t, old_column_name) \/ old_column_name = new_column_name THEN t
    ELSE LET i == CHOOSE j \in ColIdx(t, old_column_name) : TRUE
         IN DropCols([cols |-> Append(t.cols, new_column_name),
                      rows |-> [r \in 1..Len(t.rows) |->
                                  Append(t.rows[r], t.rows[r][i])]],
                     {old_column_name})

\* rename_column: DataFrame.rename relabels every column labelled old; it
\* does not look at the other labels
rename_column(t, old_column_name, new_column_name) ==
    [cols |-> [j \in 1..Len(t.cols) |->
                 IF t.cols[j] = old_column_name THEN new_column_name ELSE t.cols[j]],
     rows |-> t.rows]

\* serialize_complex_data: a list becomes its JSON text, anything else is kept
serialize_complex_data(value) ==
    IF value[1] = "l" THEN Str("[\"" \o value[2] \o "\"]") ELSE value

\* serialize_dataframe: applymap over every cell
serialize_dataframe(t) ==
    [cols |-> t.cols,
     rows |-> [r \in 1..Len(t.rows) |->
                 [j \in 1..Len(t.cols) |-> serialize_complex_data(t.rows[r][j])]]]

\* what the embedded SQL engine hands back for a stored frame: NaN and None
\* are both stored as NULL and read back as None, then the columns are typed
FromSql(t) ==
    ConvertObjects(
      [cols |-> t.cols,
       rows |-> [r \in 1..Len(t.rows) |->
                   [j \in 1..Len(t.cols) |->
                      IF t.rows[r][j] = NaN THEN None ELSE t.rows[r][j]]]])

\* The SQL texts entered: "bad" is not SQL, "star" is SELECT * FROM data,
\* "col_a" is SELECT a FROM data.
Queries == {"", "bad", "star", "col_a"}

\* execute_sql_query.  ok = FALSE: sqldf raised (not SQL, an unknown column,
\* or a frame the engine cannot store: no column, or a repeated label)
execute_sql_query(t, query) ==
    LET serialized_data == serialize_dataframe(t)
        storable == t.cols # <<>> /\ Cardinality(Range(t.cols)) = Len(t.cols)
    IN IF ~storable \/ query = "bad" \/ (query = "col_a" /\ ~HasCol(t, "a"))
       THEN [ok |-> FALSE, t |-> t]
       ELSE IF query = "col_a"
       THEN [ok |-> TRUE,
             t |-> FromSql(DropCols(serialized_data, Range(t.cols) \ {"a"}))]
       ELSE [ok |-> TRUE, t |-> FromSql(serialized_data)]

\* ----------------------------------------------------------------- store

\* the least ObjectId number no document of the collection carries
FreshId(docs) ==
    CHOOSE k \in 0..Len(docs) :
        /\ \A i \in 1..Len(docs) : DocGet(docs[i], "_id") # ObjectId(k)
        /\ \A j \in 0..(k - 1) : \E i \in 1..Len(docs) : DocGet(docs[i], "_id") = ObjectId(j)

\* collection.delete_many({})
delete_many(docs) == <<>>

\* the collection after the first n of records are inserted, each given a
\* fresh _id by the store
RECURSIVE InsertFirst(_, _, _)
InsertFirst(docs, records, n) ==
    IF n = 0 \/ records = <<>> THEN docs
    ELSE InsertFirst(Append(docs, <<<<"_id", ObjectId(FreshId(docs))>>>> \o Head(records)),
                     Tail(records), n - 1)

\* collection.insert_many(records), completed
insert_many(docs, records) == InsertFirst(docs, records, Len(records))

\* save_data as it would be without its delete_many
save_data_keep(docs, t, failure, n) ==
    LET records == ToRecords(t)
    IN IF failure = "delete" \/ records = <<>> THEN [ok |-> FALSE, docs |-> docs]
       ELSE IF failure = "insert"
       THEN [ok |-> FALSE, docs |-> InsertFirst(docs, records, n)]
       ELSE [ok |-> TRUE, docs |-> insert_many(docs, records)]

\* save_data, run without interruption.  failure names where it raised:
\* "delete" (delete_many failed), "insert" (insert_many failed after storing
\* the first n records), "no" (it returned).  insert_many rejects an empty
\* list of records whatever the store does.
save_data(docs, t, failure, n) ==
    LET records == ToRecords(t)
    IN IF failure = "delete" THEN [ok |-> FALSE, docs |-> docs]
       ELSE IF records = <<>> THEN [ok |-> FALSE, docs |-> delete_many(docs)]
       ELSE IF failure = "insert"
       THEN [ok |-> FALSE, docs |-> InsertFirst(delete_many(docs), records, n)]
       ELSE [ok |-> TRUE, docs |-> insert_many(delete_many(docs), records)]

\* ------------------------------------------------------------- the inputs

\* Collections the page may be pointed at.
CollA ==
    << << <<"_id", ObjectId(0)>>, <<"a", Str("x")>>, <<"b", Num("1.5")>> >>,
       << <<"_id", ObjectId(1)>>, <<"a", Str("y")>> >> >>

CollB ==
    << << <<"_id", ObjectId(0)>>, <<"a", None>>, <<"b", List("x")>> >>,
       << <<"_id", ObjectId(1)>>, <<"b", Str("x")>>, <<"a", Num("1.5")>> >> >>

CollC == << << <<"_id", ObjectId(0)>> >> >>

CollD == << >>

Collections == {CollA, CollB, CollC, CollD}

\* What the text inputs and the file uploader may hold.
NameInputs == {"", "a", "c"}
DefaultInputs == {"", "x"}
ConditionInputs == {"", "x", "1.5"}
NewValueInputs == {"", "y"}

\* An uploaded file: none, a .txt, a .csv that does not parse, a .csv that does.
Files == {"none", "txt", "broken", "csv"}

CsvTable == [cols |-> <<"a", "b">>, rows |-> << <<Str("u"), Num("2.5")>> >>]

\* process_uploaded_file: the parsed frame, or None with an error shown
process_uploaded_file(uploaded_file) ==
    IF uploaded_file = "csv" THEN [ok |-> TRUE, t |-> CsvTable]
    ELSE [ok |-> FALSE, t |-> EmptyTable]

\* how many records an insert_many that fails may already have stored
Stored(t, failure) ==
    IF failure = "insert" /\ ToRecords(t) # <<>> THEN 0..(Len(ToRecords(t)) - 1) ELSE {0}

\* st.data_editor(data): the frame as shown, or with its first cell retyped
Edited(t) ==
    {t} \cup (IF t.cols # <<>> /\ t.rows # <<>>
              THEN {[t EXCEPT !.rows[1][1] = Str("e")]}
              ELSE {})

\* what a selectbox over data.columns may return: one of the labels, or None
\* (written "") when the frame has no column
Options(t) == IF t.cols = <<>> THEN {""} ELSE Range(t.cols)

\* ------------------------------------------------------------- the state

\* The record kept of a handler run; a handler overrides what it uses.
Run(op, err) ==
    [op |-> op, err |-> err, pre |-> data, pre_has |-> has_data, pre_store |-> store,
     col1 |-> "", col2 |-> "", name |-> "", val |-> Str(""), cond |-> Str(""),
     drop |-> FALSE, sel |-> {}, saved |-> EmptyTable]

Sessions == {1, 2}

Init ==
    /\ store \in Collections
    /\ has_data = FALSE
    /\ data = EmptyTable
    /\ last = [Run("init", FALSE) EXCEPT !.pre_store = <<>>]
    /\ steps = 0
    /\ pc = [s \in Sessions |-> "idle"]
    /\ mine = [s \in Sessions |-> EmptyTable]
    /\ finished = <<>>

Click == steps < MaxSteps /\ steps' = steps + 1

Idle == UNCHANGED <<pc, mine, finished>>

\* "Load Data" (lines 135-141); find() may fail
LoadData ==
    /\ Click
    /\ \E selected \in BOOLEAN, reachable \in BOOLEAN :
         IF selected /\ reachable
         THEN /\ data' = load_data(store)
              /\ has_data' = TRUE
              /\ last' = Run("load", FALSE)
         ELSE /\ UNCHANGED <<data, has_data>>
              /\ last' = Run("load", TRUE)
    /\ UNCHANGED store
    /\ Idle

\* "Upload and Save Data" (lines 144-152)
UploadAndSave ==
    /\ Click
    /\ \E uploaded_file \in Files, failure \in {"no", "delete", "insert"} :
       \E n \in Stored(process_uploaded_file(uploaded_file).t, failure) :
         LET parsed == process_uploaded_file(uploaded_file)
             saved == save_data(store, parsed.t, failure, n)
         IN IF ~parsed.ok
            THEN /\ failure = "no"
                 /\ UNCHANGED <<data, has_data, store>>
                 /\ last' = Run("upload", TRUE)
            ELSE /\ store' = saved.docs
                 /\ data' = IF saved.ok THEN parsed.t ELSE data
                 /\ has_data' = (has_data \/ saved.ok)
                 /\ last' = [Run("upload", ~saved.ok) EXCEPT !.saved = parsed.t]
    /\ Idle

\* "Add Column" (lines 163-173)
AddColumn ==
    /\ Click
    /\ has_data
    /\ \E new_col \in NameInputs, default_val \in DefaultInputs :
         /\ data' = IF new_col # "" THEN add_column(data, new_col, Str(default_val))
                    ELSE data
         /\ last' = [Run("add", new_col = "") EXCEPT
                       !.name = new_col, !.val = Str(default_val)]
    /\ UNCHANGED <<store, has_data>>
    /\ Idle

\* "Merge Columns" (lines 176-188)
MergeColumns ==
    /\ Click
    /\ has_data
    /\ \E col1 \in Options(data), col2 \in Options(data),
          merged_col_name \in NameInputs, drop_originals \in BOOLEAN :
         LET given == col1 # "" /\ col2 # "" /\ merged_col_name # ""
             res == merge_columns(data, col1, col2, merged_col_name, drop_originals)
         IN /\ data' = IF given THEN res.t ELSE data
            /\ last' = [Run("merge", ~given \/ ~res.ok) EXCEPT
                          !.col1 = col1, !.col2 = col2,
                          !.name = merged_col_name, !.drop = drop_originals]
    /\ UNCHANGED <<store, has_data>>
    /\ Idle

\* "Remove Columns" (lines 191-200)
RemoveColumns ==
    /\ Click
    /\ has_data
    /\ \E cols_to_remove \in SUBSET Range(data.cols) :
         LET res == remove_columns(data, cols_to_remove)
         IN /\ data' = IF cols_to_remove # {} THEN res.t ELSE data
            /\ last' = [Run("remove", cols_to_remove = {} \/ ~res.ok) EXCEPT
                          !.sel = cols_to_remove]
    /\ UNCHANGED <<store, has_data>>
    /\ Idle

\* "Rename Column" (lines 203-213)
RenameColumn ==
    /\ Click
    /\ has_data
    /\ \E old_col_name \in Options(data), new_col_name \in NameInputs :
         LET given == old_col_name # "" /\ new_col_name # ""
         IN /\ data' = IF given THEN rename_column(data, old_col_name, new_col_name)
                       ELSE data
            /\ last' = [Run("rename", ~given) EXCEPT
                          !.col1 = old_col_name, !.name = new_col_name]
    /\ UNCHANGED <<store, has_data>>
    /\ Idle

\* "Update Column" (lines 216-227)
ConditionalUpdate ==
    /\ Click
    /\ has_data
    /\ \E col_to_update \in Options(data),
          condition_val \in ConditionInputs, new_val \in NewValueInputs :
         LET given == col_to_update # "" /\ condition_val # "" /\ new_val # ""
             res == conditional_update(data, col_to_update,
                                       Str(condition_val), Str(new_val))
         IN /\ data' = IF given THEN res.t ELSE data
            /\ last' = [Run("update", ~given \/ ~res.ok) EXCEPT
                          !.col1 = col_to_update,
                          !.cond = Str(condition_val), !.val = Str(new_val)]
    /\ UNCHANGED <<store, has_data>>
    /\ Idle

\* "Execute SQL" (lines 230-242)
ExecuteSql ==
    /\ Click
    /\ has_data
    /\ \E query \in Queries :
         LET res == execute_sql_query(data, query)
         IN IF query # "" /\ res.ok
            THEN /\ data' = res.t
                 /\ last' = [Run("sql", FALSE) EXCEPT !.name = query]
            ELSE /\ data' = data
                 /\ last' = [Run("sql", TRUE) EXCEPT !.name = query]
    /\ UNCHANGED <<store, has_data>>
    /\ Idle

\* "Save Data" (lines 244-249): the edited frame is saved, the session's is kept.
\* st.data_editor refuses a frame with a repeated label, and the script then
\* stops at line 244 on every run: the button of line 247 is not there to press.
SaveData ==
    /\ Click
    /\ has_data
    /\ Cardinality(Range(data.cols)) = Len(data.cols)
    /\ \E edited_data \in Edited(data), failure \in {"no", "delete", "insert"} :
       \E n \in Stored(edited_data, failure) :
         LET saved == save_data(store, edited_data, failure, n)
         IN /\ store' = saved.docs
            /\ last' = [Run("save", ~saved.ok) EXCEPT !.saved = edited_data]
    /\ UNCHANGED <<data, has_data>>
    /\ Idle

Next ==
    \/ LoadData
    \/ UploadAndSave
    \/ AddColumn
    \/ MergeColumns
    \/ RemoveColumns
    \/ RenameColumn
    \/ ConditionalUpdate
    \/ ExecuteSql
    \/ SaveData

Spec == Init /\ [][Next]_vars

\* --------------------------------------------------- two sessions saving
\* Two sessions, each holding a frame with rows, press "Save Data" on the
\* same collection.  The store serves one call at a time; the two calls of
\* save_data (lines 36 and 37) are separate requests.

SessionTables == {load_data(CollA), load_data(CollB), CsvTable}

InitConc ==
    /\ store \in Collections
    /\ has_data = TRUE
    /\ data = EmptyTable
    /\ last = [Run("init", FALSE) EXCEPT !.pre_store = <<>>, !.pre_has = FALSE]
    /\ steps = 0
    /\ pc = [s \in Sessions |-> "idle"]
    /\ mine \in [Sessions -> SessionTables]
    /\ finished = <<>>

\* line 36 of a session's save_data
ConcDelete(s) ==
    /\ pc[s] = "idle"
    /\ Click
    /\ store' = delete_many(store)
    /\ pc' = [pc EXCEPT ![s] = "deleted"]
    /\ UNCHANGED <<has_data, data, last, mine, finished>>

\* line 37 of a session's save_data, and its return
ConcInsert(s) ==
    /\ pc[s] = "deleted"
    /\ store' = insert_many(store, ToRecords(mine[s]))
    /\ pc' = [pc EXCEPT ![s] = "idle"]
    /\ finished' = Append(finished, s)
    /\ UNCHANGED <<has_data, data, last, steps, mine>>

NextConc == \E s \in Sessions : ConcDelete(s) \/ ConcInsert(s)

SpecConc == InitConc /\ [][NextConc]_vars

\* ------------------------------------------------------------ properties

\* a document without its _id field
StripId(doc) == SelectIdx(doc, {i \in 1..Len(doc) : doc[i][1] # "_id"}, 1)

UserDocs(docs) == [i \in 1..Len(docs) |-> StripId(docs[i])]

\* C1: an operation that ends in a reported error leaves the session's
\* table as it was before the operation.
C1_ErrorKeepsTable ==
    last.err => (data = last.pre /\ has_data = last.pre_has)

\* a merge that raised inside merge_columns, on a frame with rows
C1_Witness ==
    /\ last.op = "merge" /\ last.err
    /\ last.col1 # "" /\ last.col2 # "" /\ last.name # ""
    /\ last.pre.rows # <<>>

\* C2: RemoveColumns(names) returns a table without the given names and with
\* every other column kept; an absent name is ignored, so removing the same
\* names again from the result succeeds and returns an equal table.
C2_RemoveTwice ==
    (last.op = "remove" /\ ~last.err) =>
        /\ \A c \in last.sel : ~HasCol(data, c)
        /\ data = DropCols(last.pre, last.sel)
        /\ remove_columns(data, last.sel).ok
        /\ remove_columns(data, last.sel).t = data

\* C3: MergeColumns(A, B, C, dropOriginals = true) returns a table that
\* contains column C, holding in every row the text of A followed by the
\* text of B, and no column named A or B unless that name is C.
C3_MergeDropKeepsMerged ==
    (last.op = "merge" /\ ~last.err /\ last.drop) =>
        /\ HasCol(data, last.name)
        /\ \A j \in ColIdx(data, last.name) : \A r \in 1..Len(data.rows) :
             \E i1 \in ColIdx(last.pre, last.col1), i2 \in ColIdx(last.pre, last.col2) :
                data.rows[r][j] =
                    Str(PyStr(last.pre.rows[r][i1]) \o PyStr(last.pre.rows[r][i2]))
        /\ \A c \in {last.col1, last.col2} : c # last.name => ~HasCol(data, c)

\* C4: no two columns of the current table share a name, whatever transforms
\* were applied; renaming old to a name another column has leaves exactly
\* one column of that name, holding old's values.
C4_UniqueNames ==
    /\ has_data => Cardinality(Range(data.cols)) = Len(data.cols)
    /\ (last.op = "rename" /\ ~last.err) =>
         /\ Cardinality(ColIdx(data, last.name)) = 1
         /\ \A j \in ColIdx(data, last.name) : \A r \in 1..Len(data.rows) :
              \E i \in ColIdx(last.pre, last.col1) : data.rows[r][j] = last.pre.rows[r][i]

\* C5: a successful save leaves the collection holding exactly one document
\* per row of the saved table, with the row's value in every column, and
\* none of the documents held before; the session's table is unchanged.
C5_SaveReplacesAll ==
    (last.op = "save" /\ ~last.err) =>
        /\ Len(store) = Len(last.saved.rows)
        /\ \A r \in 1..Len(store) : \A j \in 1..Len(last.saved.cols) :
             DocGet(store[r], last.saved.cols[j]) = last.saved.rows[r][j]
        /\ \A r \in 1..Len(store) :
             Range(DocKeys(store[r])) = Range(last.saved.cols) \cup {"_id"}
        /\ data = last.pre /\ has_data

\* an edited table was saved over a collection that held other documents
C5_Witness ==
    /\ last.op = "save" /\ ~last.err
    /\ last.pre_store # <<>>
    /\ last.saved # data
    /\ UserDocs(last.pre_store) # UserDocs(store)

\* C6: once two sessions have both saved to the collection, however their
\* delete and insert requests interleaved, the collection holds exactly the
\* documents of the session whose save returned last.
C6_LastSaveWins ==
    (Range(finished) = Sessions /\ \A s \in Sessions : pc[s] = "idle") =>
        UserDocs(store) = ToRecords(mine[finished[Len(finished)]])

\* C7: loading a collection and mapping the table back to documents yields
\* as many documents as were loaded, each with the value it had in every
\* user field; _id is no column of the table and no field of the documents.
C7_RoundTrip ==
    (last.op = "load" /\ ~last.err) =>
        LET docs == last.pre_store
            out == ToRecords(data)
        IN /\ ~HasCol(data, "_id")
           /\ \A i \in 1..Len(out) : "_id" \notin Range(DocKeys(out[i]))
           /\ Len(out) = Len(docs)
           /\ \A i \in 1..Len(docs) : \A k \in 1..Len(docs[i]) :
                docs[i][k][1] # "_id" => DocGet(out[i], docs[i][k][1]) = docs[i][k][2]

\* C8: renaming old to a name no column has, then renaming that name back
\* to old, gives back the original labels and the original cells.
C8_RenameBack ==
    (last.op = "rename" /\ ~last.err /\ ~HasCol(last.pre, last.name)) =>
        rename_column(data, last.name, last.col1) = last.pre

\* a column was renamed to an unused name, in a frame with another column
C8_Witness ==
    /\ last.op = "rename" /\ ~last.err /\ ~HasCol(last.pre, last.name)
    /\ HasCol(data, last.name)
    /\ Len(data.cols) > 1 /\ data.rows # <<>>

\* C9: AddColumn with a non-empty name gives a table where that column holds
\* the default in every row and every other column is as before; an existing
\* name is overwritten and the number of columns does not grow; an empty
\* name is reported as an error and the table is unchanged.
C9_AddColumn ==
    last.op = "add" =>
        IF last.name = ""
        THEN last.err /\ data = last.pre
        ELSE /\ ~last.err
             /\ HasCol(data, last.name)
             /\ Len(data.rows) = Len(last.pre.rows)
             /\ \A r \in 1..Len(data.rows) : \A j \in ColIdx(data, last.name) :
                  data.rows[r][j] = last.val
             /\ DropCols(data, {last.name}) = DropCols(last.pre, {last.name})
             /\ Len(data.cols) = Len(last.pre.cols)
                                 + (IF HasCol(last.pre, last.name) THEN 0 ELSE 1)

\* an existing column, holding other values, was overwritten
C9_Witness ==
    /\ last.op = "add" /\ ~last.err
    /\ HasCol(last.pre, last.name)
    /\ data # last.pre

\* C10: ConditionalUpdate on an existing column sets the column to newValue
\* in exactly the rows whose value equals matchValue, changes nothing else,
\* and reports no error, also when no row matches.
C10_ConditionalUpdate ==
    (last.op = "update" /\ HasCol(last.pre, last.col1)) =>
        /\ ~last.err
        /\ data.cols = last.pre.cols
        /\ Len(data.rows) = Len(last.pre.rows)
        /\ \A r \in 1..Len(data.rows) : \A j \in 1..Len(data.cols) :
             data.rows[r][j] =
                IF data.cols[j] = last.col1 /\ last.pre.rows[r][j] = last.cond
                THEN last.val
                ELSE last.pre.rows[r][j]

====
